---- MODULE Spec2Model ----
(***************************************************************************)
(* UpShot: a status-bar application that watches the screenshot directory  *)
(* with a watchdog Observer, uploads every screenshot candidate to         *)
(* Phabricator, copies the URL to the clipboard and notifies the user.     *)
(*                                                                         *)
(* The main (UI) thread runs the methods of class Upshot.  Every Observer  *)
(* that was started owns one background thread, which takes file events    *)
(* from the observer's queue and runs the ScreenshotHandler callbacks on   *)
(* them.  The upload is a blocking network call: a callback is modelled in *)
(* two steps, up to the upload call and from its return to the end.        *)
(***************************************************************************)
EXTENDS Integers, Sequences, FiniteSets, TLC

\* ---------------------------------------------------------------- bounds
MaxObservers == 2      \* Observer objects that exist at a time
MaxEvents == 2         \* file events the emitters report

\* ------------------------------------------------------------- constants
TIME_THRESHOLD == 15

None == 0
Obs == 1..MaxObservers

\* Paths are sequences of characters.
SCREENSHOT_DIR == <<"/", "d">>
Shot == SCREENSHOT_DIR \o <<"/", "s">>
Hidden == SCREENSHOT_DIR \o <<"/", ".", "t">>
Paths == {Shot, Hidden}

\* Values the environment returns to the handler.
CTimes == {84, 98, 116}     \* os.path.getctime(f)
Nows == {100}               \* time.time()

Event(t, s, d) == [type |-> t, src_path |-> s, dest_path |-> d]

\* The file events the emitters report for the directory: a file is
\* created, a file is moved to another name, a directory is created.
Reported ==
    { Event("FileCreatedEvent", s, <<>>) : s \in Paths }
    \cup { e \in { Event("FileMovedEvent", s, d) : s \in Paths, d \in Paths } :
               e.src_path # e.dest_path }
    \cup { Event("DirCreatedEvent", Shot, <<>>) }

VARIABLES
    observer,     \* Upshot.observer: None or the Observer last created
    statusitem,   \* Upshot.statusitem is set (build_menu has run)
    icon,         \* image shown by the status item
    prefs,        \* the preferences store (utils.get_pref, set_pref)
    win,          \* the controls of the preferences window, if it was shown
    mainpc,       \* position of the main thread
    mainop,       \* the method the main thread is inside while it joins
    mainlog,      \* the last call made on the main thread and what it fired
    st,           \* per observer: state of its thread
    stopflag,     \* per observer: Observer.stop() was called
    q,            \* per observer: its event queue
    pc,           \* per observer: position of its thread in the callback
    cur,          \* per observer: the candidate its thread handled last
    log,          \* per observer: the calls of its thread's last callback
    nev,          \* number of file events reported so far
    phab,         \* number of files stored by Phabricator
    clipboard     \* content of the clipboard (a URL, or None)

mainvars == <<observer, statusitem, icon, mainpc, mainop, mainlog>>
thvars == <<st, stopflag, q, pc, cur, log>>
envvars == <<prefs, win, nev, phab, clipboard>>
vars == <<observer, statusitem, icon, prefs, win, mainpc, mainop, mainlog,
          st, stopflag, q, pc, cur, log, nev, phab, clipboard>>

\* ------------------------------------------------------------ Preferences
\* The preferences and their defaults (Preferences.py, lines 9-15).
DEFAULTS ==
    [launchAtStartup |-> TRUE, iconset |-> "default", copyonly |-> FALSE,
     retinascale |-> FALSE, share_format |-> "long"]

\* The preferences window was never shown.
NoWindow == <<>>

\* ------------------------------------------------------------ os.path
LastSlash(f) ==
    LET S == { i \in 1..Len(f) : f[i] = "/" }
    IN  IF S = {} THEN 0 ELSE CHOOSE i \in S : \A j \in S : j <= i

basename(f) == SubSeq(f, LastSlash(f) + 1, Len(f))

startswith(s, c) == Len(s) >= 1 /\ s[1] = c

Last(seq) == seq[Len(seq)]

\* ------------------------------------------------------------ Upshot
\* update_menu (lines 120-130): the image the status item shows afterwards.
update_menu(si, obs, img) ==
    IF ~si THEN img
    ELSE IF obs # None THEN "icon16" ELSE "icon16-off"

Init ==
    /\ observer = None
    /\ statusitem = FALSE
    /\ icon = "none"
    /\ prefs \in { [DEFAULTS EXCEPT !.retinascale = r] : r \in BOOLEAN }
    /\ win = NoWindow
    /\ mainpc = "init"
    /\ mainop = "none"
    /\ mainlog = <<>>
    /\ st = [o \in Obs |-> "none"]
    /\ stopflag = [o \in Obs |-> FALSE]
    /\ q = [o \in Obs |-> <<>>]
    /\ pc = [o \in Obs |-> "idle"]
    /\ cur = [o \in Obs |-> <<>>]
    /\ log = [o \in Obs |-> <<>>]
    /\ nev = 0
    /\ phab = 0
    /\ clipboard = None

\* An Observer whose thread is not running and that self.observer does not
\* refer to is garbage: nothing can reach it, and its slot is free again.
Dead == {"unstarted", "exited", "crashed"}

Release(F, gone, v) == IF gone = None THEN F ELSE [F EXCEPT ![gone] = v]

Garbage(old) == IF old # None /\ st[old] \in Dead THEN old ELSE None

FreeSlots(old) ==
    { o \in Obs : st[o] = "none" } \cup ({Garbage(old)} \ {None})

CanCreate(old) == FreeSlots(old) # {}

\* Mutant of startListening_: the notification of line 162 is fired
\* whether or not the observer was started.
startListening_NotifyAlways(ml, img, started, old) ==
    LET gone == Garbage(old)
        id == CHOOSE o \in FreeSlots(old) : \A p \in FreeSlots(old) : o <= p
    IN
    /\ observer' = id
    /\ st' = [Release(st, gone, "none") EXCEPT
                ![id] = IF started THEN "running" ELSE "unstarted"]
    /\ stopflag' = Release(stopflag, gone, FALSE)
    /\ q' = Release(q, gone, <<>>)
    /\ cur' = Release(cur, gone, <<>>)
    /\ log' = Release(log, gone, <<>>)
    /\ icon' = IF started THEN update_menu(TRUE, id, img) ELSE img
    /\ mainlog' = ml \o <<"UpShot started">>

\* startListening_ (lines 151-162).  ml is what the main thread has done
\* in the current call, img the image shown, old the observer that
\* self.observer referred to before line 154.  started says whether
\* observer.schedule and observer.start returned; when one of them raises,
\* the assignment of line 154 has been made and the rest is skipped.
startListening_(ml, img, started, old) ==
    LET gone == Garbage(old)
        id == CHOOSE o \in FreeSlots(old) : \A p \in FreeSlots(old) : o <= p
    IN
    /\ observer' = id
    /\ st' = [Release(st, gone, "none") EXCEPT
                ![id] = IF started THEN "running" ELSE "unstarted"]
    /\ stopflag' = Release(stopflag, gone, FALSE)
    /\ q' = Release(q, gone, <<>>)
    /\ cur' = Release(cur, gone, <<>>)
    /\ log' = Release(log, gone, <<>>)
    /\ IF started
       THEN /\ icon' = update_menu(TRUE, id, img)
            /\ mainlog' = ml \o <<"UpShot started">>
       ELSE /\ icon' = img
            /\ mainlog' = ml \o <<"raise">>

\* applicationDidFinishLaunching_ (lines 52-55): build_menu, then
\* startListening_.
applicationDidFinishLaunching_ ==
    /\ mainpc = "init"
    /\ statusitem' = TRUE
    /\ \E started \in BOOLEAN :
         startListening_(<<"applicationDidFinishLaunching_">>, "icon16",
                         started, observer)
    /\ mainpc' = "idle"
    /\ UNCHANGED <<prefs, win, mainop, pc, nev, phab, clipboard>>

\* The menu action startListening: (line 84).
CallStartListening ==
    /\ mainpc = "idle"
    /\ CanCreate(observer)
    /\ \E started \in BOOLEAN :
         startListening_(<<"startListening_">>, icon, started, observer)
    /\ UNCHANGED <<statusitem, prefs, win, mainpc, mainop, pc, nev, phab,
                   clipboard>>

\* What follows stopListening_ in the method that called it: nothing
\* (the menu action), startListening_ (restart_, line 179) or terminate_
\* (quit_, line 185), which ends the process and every thread of it.
\* old is the observer that was joined, None when there was none;
\* self.observer is None at this point.
AfterStop(op, ml, img, old) ==
    CASE op = "restart_" ->
           /\ \E started \in BOOLEAN : startListening_(ml, img, started, old)
           /\ mainpc' = "idle"
           /\ UNCHANGED pc
      [] op = "quit_" ->
           /\ observer' = None
           /\ icon' = img
           /\ mainlog' = ml
           /\ mainpc' = "terminated"
           /\ st' = [o \in Obs |-> "none"]
           /\ stopflag' = [o \in Obs |-> FALSE]
           /\ q' = [o \in Obs |-> <<>>]
           /\ pc' = [o \in Obs |-> "idle"]
           /\ cur' = [o \in Obs |-> <<>>]
           /\ log' = [o \in Obs |-> <<>>]
      [] OTHER ->
           /\ observer' = None
           /\ icon' = img
           /\ mainlog' = ml
           /\ mainpc' = "idle"
           /\ st' = Release(st, old, "none")
           /\ stopflag' = Release(stopflag, old, FALSE)
           /\ q' = Release(q, old, <<>>)
           /\ cur' = Release(cur, old, <<>>)
           /\ log' = Release(log, old, <<>>)
           /\ UNCHANGED pc

\* The guard of stopListening_ (line 166).
HasObserver(obs) == obs # None

\* Mutant of Paused: the test of line 166 inverted, the notification fired
\* when there was no observer to stop.
PausedInverted(had, ml) == IF had THEN ml ELSE ml \o <<"UpShot paused">>

\* What stopListening_ has fired when it returns (lines 166-175): the
\* notification is inside the if.
Paused(had, ml) == IF had THEN ml \o <<"UpShot paused">> ELSE ml

\* stopListening_ up to the join (lines 164-168), entered from the menu
\* action stopListening:, from restart_ or from quit_.  Without an observer
\* only update_menu runs (line 175).  Joining a thread that was never
\* started raises RuntimeError.
StopEnter(op) ==
    /\ mainpc = "idle"
    /\ op = "restart_" => CanCreate(observer)
    /\ IF ~HasObserver(observer)
       THEN /\ AfterStop(op, Paused(FALSE, <<op>>),
                         update_menu(statusitem, observer, icon), None)
            /\ UNCHANGED mainop
       ELSE /\ stopflag' = [stopflag EXCEPT ![observer] = TRUE]
            /\ IF st[observer] = "unstarted"
               THEN /\ mainlog' = <<op, "raise">>
                    /\ UNCHANGED <<mainpc, mainop>>
               ELSE /\ mainlog' = <<op>>
                    /\ mainpc' = "join"
                    /\ mainop' = op
            /\ UNCHANGED <<observer, icon, st, q, pc, cur, log>>
    /\ UNCHANGED <<statusitem, prefs, win, nev, phab, clipboard>>

CallStopListening == StopEnter("stopListening_")

CallRestart == StopEnter("restart_")

CallQuit == StopEnter("quit_")

\* observer.join() returns once the observer's thread has ended; then
\* lines 169-175 run and the calling method goes on.
JoinReturns ==
    /\ mainpc = "join"
    /\ st[observer] \in {"exited", "crashed"}
    /\ AfterStop(mainop, Paused(TRUE, mainlog),
                 update_menu(statusitem, None, icon), observer)
    /\ mainop' = "none"
    /\ UNCHANGED <<statusitem, prefs, win, nev, phab, clipboard>>

\* ------------------------------------------------------------ watchdog
\* The emitter of an observer runs from start() to stop().
Watching(o) == st[o] = "running" /\ ~stopflag[o]

\* The emitter of observer o notices a change of the directory and puts
\* the event on the observer's queue.  Every observer has an emitter of
\* its own, so two observers learn of the same change one after the other.
FileEvent(o) ==
    /\ mainpc # "terminated"
    /\ nev < MaxEvents
    /\ Watching(o)
    /\ \E e \in Reported : q' = [q EXCEPT ![o] = Append(@, e)]
    /\ nev' = nev + 1
    /\ UNCHANGED <<mainvars, prefs, win, st, stopflag, pc, cur, log, phab,
                   clipboard>>

\* ------------------------------------------------------------ ScreenshotHandler
NoPath == <<>>

\* Results of the calls the handler makes outside this module.
IsScreenshotResults == BOOLEAN
ResampleResults == {"ok", "TransformError"}
UploadResults == {"ok", "UploadError"}

\* Line 216 calls resampleRetinaImage only when the preference is set.
Resampled(retinascale) == IF retinascale THEN ResampleResults ELSE {"ok"}

\* on_created (lines 190-194): the path passed to
\* handle_screenshot_candidate, NoPath when it is not called.
on_created(event) ==
    LET f == event.src_path IN
    IF event.type = "FileCreatedEvent" /\ ~startswith(basename(f), ".")
    THEN f
    ELSE NoPath

\* on_moved (lines 196-203).
on_moved(event) ==
    IF event.type # "FileMovedEvent"
    THEN NoPath
    ELSE event.dest_path

\* FileSystemEventHandler.dispatch: the callback an event type goes to.
Callback(event) ==
    IF event.type \in {"FileCreatedEvent", "DirCreatedEvent"}
    THEN "on_created"
    ELSE "on_moved"

Candidate(event) ==
    IF Callback(event) = "on_created" THEN on_created(event)
    ELSE on_moved(event)

\* The age test of handle_screenshot_candidate (line 209).
TooOld(ctime, now) == ctime - now > TIME_THRESHOLD

\* One call made by a callback: v is the value it returned (the screenshot
\* check, a successful upload) or was given (pbcopy, the notification).
LogEntry(op, f, v) == [op |-> op, path |-> f, v |-> v]

\* Mutant of handle_screenshot_candidate: the rescale of line 216 is done
\* before the screenshot check of line 213.
candidateRescaleFirst(f, ctime, now, shot, retinascale, resampled) ==
    IF TooOld(ctime, now) THEN <<>>
    ELSE IF ~retinascale
         THEN IF ~shot THEN << LogEntry("is_screenshot", f, shot) >>
              ELSE << LogEntry("is_screenshot", f, shot),
                      LogEntry("open", f, None) >>
    ELSE IF resampled # "ok"
         THEN << LogEntry("resampleRetinaImage", f, None),
                 LogEntry("raise", f, None) >>
    ELSE IF ~shot
         THEN << LogEntry("resampleRetinaImage", f, None),
                 LogEntry("is_screenshot", f, shot) >>
         ELSE << LogEntry("resampleRetinaImage", f, None),
                 LogEntry("is_screenshot", f, shot),
                 LogEntry("open", f, None) >>

\* handle_screenshot_candidate up to the upload (lines 205-218), as the
\* calls it makes, in order: none when the candidate is too old; the
\* screenshot check, whose result ends the callback when it is false; the
\* rescale when the preference is set, which raises when it fails; then
\* the file is opened for the upload.
handle_screenshot_candidate(f, ctime, now, shot, retinascale, resampled) ==
    IF TooOld(ctime, now) THEN <<>>
    ELSE IF ~shot THEN << LogEntry("is_screenshot", f, shot) >>
    ELSE IF ~retinascale
         THEN << LogEntry("is_screenshot", f, shot),
                 LogEntry("open", f, None) >>
    ELSE IF resampled # "ok"
         THEN << LogEntry("is_screenshot", f, shot),
                 LogEntry("resampleRetinaImage", f, None),
                 LogEntry("raise", f, None) >>
         ELSE << LogEntry("is_screenshot", f, shot),
                 LogEntry("resampleRetinaImage", f, None),
                 LogEntry("open", f, None) >>

\* The thread of observer o takes the next event from its queue and runs
\* the callback up to the upload call.  An exception that leaves the
\* callback is caught nowhere: it ends the thread.
Dispatch(o) ==
    /\ mainpc # "terminated"
    /\ st[o] = "running"
    /\ pc[o] = "idle"
    /\ q[o] # <<>>
    /\ LET event == Head(q[o])
           f == Candidate(event)
           called == LogEntry(Callback(event),
                              IF event.type = "FileMovedEvent"
                              THEN event.dest_path ELSE event.src_path, None)
       IN
       /\ q' = [q EXCEPT ![o] = Tail(q[o])]
       /\ IF f = NoPath
          THEN /\ log' = [log EXCEPT ![o] = <<called>>]
               /\ cur' = [cur EXCEPT ![o] = <<>>]
               /\ UNCHANGED <<st, pc>>
          ELSE \E ctime \in CTimes, now \in Nows, shot \in IsScreenshotResults,
                  resampled \in Resampled(prefs.retinascale) :
                 LET done == <<called>> \o
                             handle_screenshot_candidate(
                                 f, ctime, now, shot, prefs.retinascale, resampled)
                 IN
                 /\ log' = [log EXCEPT ![o] = done]
                 /\ st' = [st EXCEPT ![o] =
                             IF Last(done).op = "raise" THEN "crashed" ELSE @]
                 /\ pc' = [pc EXCEPT ![o] =
                             IF Last(done).op = "open" THEN "upload" ELSE @]
                 /\ cur' = [cur EXCEPT ![o] =
                              IF Last(done).op = "open"
                              THEN [f |-> f, type |-> event.type,
                                    ctime |-> ctime, now |-> now]
                              ELSE <<>>]
    /\ UNCHANGED <<mainvars, prefs, win, stopflag, nev, phab, clipboard>>

\* Mutant of AfterUpload: the failure of the upload is swallowed and the
\* callback goes on with no URL.
AfterUploadSwallowed(result, f, url) ==
    << LogEntry("upload", f, url),
       LogEntry("pbcopy", f, url),
       LogEntry("Screenshot shared!", f, url) >>

\* Mutant of AfterUpload: the notification is fired before the clipboard is
\* written.
AfterUploadNotifyFirst(result, f, url) ==
    IF result = "ok"
    THEN << LogEntry("upload", f, url),
            LogEntry("Screenshot shared!", f, url),
            LogEntry("pbcopy", f, url) >>
    ELSE << LogEntry("upload", f, None),
            LogEntry("raise", f, None) >>

\* What the callback does from the upload call on (lines 218-243), in
\* order: the upload, then the clipboard and the notification, or the
\* exception that leaves the callback when the upload fails.
AfterUpload(result, f, url) ==
    IF result = "ok"
    THEN << LogEntry("upload", f, url),
            LogEntry("pbcopy", f, url),
            LogEntry("Screenshot shared!", f, url) >>
    ELSE << LogEntry("upload", f, None),
            LogEntry("raise", f, None) >>

\* utils.pbcopy: what the clipboard holds after the calls of done.
Copied(done, before) ==
    LET S == { i \in 1..Len(done) : done[i].op = "pbcopy" }
    IN  IF S = {} THEN before
        ELSE done[CHOOSE i \in S : \A j \in S : j <= i].v

\* The upload call of observer o's thread returns or fails, and the
\* callback runs to its end.
Upload(o) ==
    /\ mainpc # "terminated"
    /\ st[o] = "running"
    /\ pc[o] = "upload"
    /\ \E result \in UploadResults :
         LET url == IF result = "ok" THEN phab + 1 ELSE None
             done == AfterUpload(result, cur[o].f, url)
         IN
         /\ phab' = IF result = "ok" THEN phab + 1 ELSE phab
         /\ log' = [log EXCEPT ![o] = @ \o done]
         /\ clipboard' = Copied(done, clipboard)
         /\ st' = [st EXCEPT ![o] =
                     IF Last(done).op = "raise" THEN "crashed" ELSE @]
         /\ pc' = [pc EXCEPT ![o] = "idle"]
    /\ UNCHANGED <<mainvars, prefs, win, stopflag, q, cur, nev>>

\* The thread of a stopped observer ends when it is between two events.
ThreadExit(o) ==
    /\ mainpc # "terminated"
    /\ st[o] = "running"
    /\ stopflag[o]
    /\ pc[o] = "idle"
    /\ st' = [st EXCEPT ![o] = "exited"]
    /\ UNCHANGED <<mainvars, prefs, win, stopflag, q, pc, cur, log, nev, phab,
                   clipboard>>

\* ------------------------------------------------------------ specification
Next ==
    \/ applicationDidFinishLaunching_
    \/ CallStartListening
    \/ CallStopListening
    \/ CallRestart
    \/ CallQuit
    \/ JoinReturns
    \/ \E o \in Obs : FileEvent(o)
    \/ \E o \in Obs : Dispatch(o)
    \/ \E o \in Obs : Upload(o)
    \/ \E o \in Obs : ThreadExit(o)

Spec == Init /\ [][Next]_vars

\* ------------------------------------------------------------ preferences window
\* The states of the window's controls: three checkboxes and the selected
\* cell tag of the two radio groups (Preferences.py, lines 23-32).
Controls ==
    [launchAtStartup : BOOLEAN, iconset : {0, 1}, copyonly : BOOLEAN,
     retinascale : BOOLEAN, url_select : {0, 1}]

\* What the preferences store can hold for the keys of DEFAULTS.
Stored ==
    [launchAtStartup : BOOLEAN, iconset : {"default", "grayscale"},
     copyonly : BOOLEAN, retinascale : BOOLEAN,
     share_format : {"long", "short"}]

\* updateDisplay (Preferences.py, lines 38-50): the controls w after they
\* were set from the preferences p.  Line 44 sets the copyonly checkbox a
\* second time, from the retinascale preference; the retinascale checkbox
\* is not set.
updateDisplay(w, p) ==
    LET w1 == [w EXCEPT !.launchAtStartup = p.launchAtStartup]
        w2 == [w1 EXCEPT !.iconset = IF p.iconset = "grayscale" THEN 1 ELSE 0]
        w3 == [w2 EXCEPT !.copyonly = p.copyonly]
        w4 == [w3 EXCEPT !.copyonly = p.retinascale]
    IN  IF p.share_format = "long" THEN [w4 EXCEPT !.url_select = 0]
        ELSE IF p.share_format = "short" THEN [w4 EXCEPT !.url_select = 1]
        ELSE w4

\* The application is running and sharing; the store holds what earlier
\* runs saved.
PrefInit ==
    /\ observer = 1
    /\ statusitem = TRUE
    /\ icon = "icon16"
    /\ prefs \in Stored
    /\ win = NoWindow
    /\ mainpc = "idle"
    /\ mainop = "none"
    /\ mainlog = <<"applicationDidFinishLaunching_", "UpShot started">>
    /\ st = [o \in Obs |-> IF o = 1 THEN "running" ELSE "none"]
    /\ stopflag = [o \in Obs |-> FALSE]
    /\ q = [o \in Obs |-> <<>>]
    /\ pc = [o \in Obs |-> "idle"]
    /\ cur = [o \in Obs |-> <<>>]
    /\ log = [o \in Obs |-> <<>>]
    /\ nev = 0
    /\ phab = 0
    /\ clipboard = None

\* showWindow_ (Preferences.py, lines 34-36): the window is shown and
\* updateDisplay runs.  The first time the controls are as the nib file
\* has them.
showWindow_ ==
    /\ \E nib \in Controls :
         win' = updateDisplay(IF win = NoWindow THEN nib ELSE win, prefs)
    /\ UNCHANGED <<mainvars, thvars, prefs, nev, phab, clipboard>>

\* The user clicks a checkbox or selects a radio cell.
ClickControl ==
    /\ win # NoWindow
    /\ \E w \in Controls :
         /\ Cardinality({ k \in DOMAIN w : w[k] # win[k] }) = 1
         /\ win' = w
    /\ UNCHANGED <<mainvars, thvars, prefs, nev, phab, clipboard>>

\* saveSettings_ (Preferences.py, lines 52-74), update_menu of the
\* application included (lines 64-65).
saveSettings_ ==
    /\ win # NoWindow
    /\ prefs' = [launchAtStartup |-> win.launchAtStartup,
                 iconset |-> IF win.iconset = 1 THEN "grayscale"
                             ELSE "default",
                 copyonly |-> win.copyonly,
                 retinascale |-> win.retinascale,
                 share_format |-> IF win.url_select = 0 THEN "long"
                                  ELSE IF win.url_select = 1 THEN "short"
                                  ELSE prefs.share_format]
    /\ icon' = update_menu(statusitem, observer, icon)
    /\ UNCHANGED <<observer, statusitem, mainpc, mainop, mainlog, thvars,
                   win, nev, phab, clipboard>>

PrefNext ==
    \/ showWindow_
    \/ ClickControl
    \/ saveSettings_

PrefSpec == PrefInit /\ [][PrefNext]_vars

\* ------------------------------------------------------------ properties
Running == { o \in Obs : st[o] = "running" }

Ops(l) == { l[i].op : i \in 1..Len(l) }

UploadFailed(l) == \E i \in 1..Len(l) : l[i].op = "upload" /\ l[i].v = None

Uploaded(l) == \E i \in 1..Len(l) : l[i].op = "upload" /\ l[i].v # None

\* stopListening_ has returned and nothing was started since.
Stopped == mainpc = "idle" /\ observer = None

\* C1: after any sequence of startListening_ and stopListening_ calls at
\* most one observer is running.
C1_AtMostOneSession == Cardinality(Running) <= 1

\* C2: once stopListening_ has returned, no callback of the handler is
\* invoked for a file event.
C2_NoCallbackAfterStop ==
    [][ Stopped => \A o \in Obs : ~Dispatch(o) ]_vars

\* C3: a path that was uploaded for a file-created event is not uploaded
\* again for the file-moved event that reports the same path next, nor the
\* other way round.
C3_AtMostOneUpload ==
    [][ \A o \in Obs :
          (Uploaded(log[o]) /\ pc[o] = "idle" /\ pc'[o] = "upload")
          => ~ ( /\ cur'[o].f = cur[o].f
                 /\ {cur[o].type, cur'[o].type}
                      = {"FileCreatedEvent", "FileMovedEvent"} ) ]_vars

\* C4: a candidate whose creation time is more than TIME_THRESHOLD seconds
\* before the current time is rejected: it never gets to the upload.
C4_OldRejected ==
    \A o \in Obs :
      cur[o] # <<>> => ~ (cur[o].now - cur[o].ctime > TIME_THRESHOLD)

\* C5: no upload is attempted for a path whose file name begins with '.',
\* whichever event reported it.
C5_HiddenRejected ==
    \A o \in Obs : cur[o] # <<>> => ~startswith(basename(cur[o].f), ".")

\* C6: after a failed upload the observer keeps running until
\* stopListening_ stops it.
C6_SessionSurvivesFailure ==
    \A o \in Obs :
      (UploadFailed(log[o]) /\ ~stopflag[o]) => st[o] = "running"

\* C7: when the upload fails, the callback writes nothing to the clipboard
\* and fires no 'Screenshot shared!' notification; the clipboard only ever
\* holds the URL of a successful upload.
C7_NothingSharedOnFailure ==
    /\ \A o \in Obs :
         UploadFailed(log[o])
         => Ops(log[o]) \cap {"pbcopy", "Screenshot shared!"} = {}
    /\ clipboard \in 0..phab

C7_Witness ==
    \E o \in Obs : st[o] = "crashed" /\ UploadFailed(log[o])

\* The calls of a callback from the opening of the file on.
FromOpen(l) ==
    LET k == CHOOSE i \in 1..Len(l) : l[i].op = "open"
    IN  SubSeq(l, k + 1, Len(l))

\* C8: an event that passes the tests produces exactly one upload, then one
\* clipboard write of the URL that upload returned, then exactly one
\* notification with that URL; without a successful upload there is
\* neither.
C8_UploadThenCopyThenNotify ==
    /\ \A r \in BOOLEAN :
         Last(handle_screenshot_candidate(Shot, 98, 100, TRUE, r, "ok")).op
           = "open"
    /\ \A o \in Obs :
      LET l == log[o] IN
      IF "open" \notin Ops(l)
      THEN /\ pc[o] = "idle"
           /\ Ops(l) \cap {"upload", "pbcopy", "Screenshot shared!"} = {}
      ELSE LET f == cur[o].f
               t == FromOpen(l)
           IN
           /\ Cardinality({ i \in 1..Len(l) : l[i].op = "open" }) = 1
           /\ IF pc[o] = "upload"
              THEN t = <<>>
              ELSE \/ \E u \in 1..phab :
                        t = << LogEntry("upload", f, u),
                               LogEntry("pbcopy", f, u),
                               LogEntry("Screenshot shared!", f, u) >>
                   \/ t = << LogEntry("upload", f, None),
                             LogEntry("raise", f, None) >>

\* The session is active and its thread has handled the file-created event
\* of a visible file created 2 seconds before: one upload, the clipboard
\* write, the notification.
C8_Witness ==
    /\ observer # None
    /\ st[observer] = "running"
    /\ pc[observer] = "idle"
    /\ cur[observer] = [f |-> Shot, type |-> "FileCreatedEvent",
                        ctime |-> 98, now |-> 100]
    /\ \E u \in 1..phab :
         log[observer] = << LogEntry("on_created", Shot, None),
                            LogEntry("is_screenshot", Shot, TRUE),
                            LogEntry("open", Shot, None),
                            LogEntry("upload", Shot, u),
                            LogEntry("pbcopy", Shot, u),
                            LogEntry("Screenshot shared!", Shot, u) >>

\* C9: stopListening_ without an observer changes nothing: the observer
\* stays None, no thread is stopped or joined, no notification is fired.
C9_StopWithoutObserver ==
    [][ (CallStopListening /\ ~HasObserver(observer))
        => /\ mainlog' = <<"stopListening_">>
           /\ observer' = None
           /\ mainpc' = "idle"
           /\ UNCHANGED <<statusitem, icon, mainop, thvars, envvars>> ]_vars

\* stopListening_ has returned and fired nothing: it was called without
\* an observer.
C9_Witness ==
    /\ mainlog = <<"stopListening_">>
    /\ mainpc = "idle"
    /\ observer = None

\* C10: when the rescale fails the file is still opened and uploaded.
C10_UploadAfterFailedRescale ==
    \A o \in Obs :
      (log[o] # <<>> /\ "resampleRetinaImage" \in Ops(log[o])
         /\ pc[o] = "idle")
      => Ops(log[o]) \cap {"upload"} # {}

\* A step in which startListening_ runs to its end or to the exception:
\* called at launch, from the menu, or by restart_ after stopListening_.
StartStep ==
    \/ applicationDidFinishLaunching_
    \/ CallStartListening
    \/ CallRestart /\ ~HasObserver(observer)
    \/ JoinReturns /\ mainop = "restart_"

\* C11: when observer.schedule or observer.start raises, the exception
\* leaves startListening_ for its caller and no 'UpShot started'
\* notification is fired; the notification is fired when they return.
C11_StartFailureSurfaced ==
    [][ StartStep
        => IF st'[observer'] = "unstarted"
           THEN /\ Last(mainlog') = "raise"
                /\ \A i \in 1..Len(mainlog') : mainlog'[i] # "UpShot started"
           ELSE /\ st'[observer'] = "running"
                /\ Last(mainlog') = "UpShot started" ]_vars

\* startListening_, called from the menu, has failed to start the observer.
C11_Witness ==
    /\ mainlog = <<"startListening_", "raise">>
    /\ observer # None
    /\ st[observer] = "unstarted"

\* The callback called the screenshot check and it returned false.
NotAScreenshot(l) ==
    \E i \in 1..Len(l) : l[i].op = "is_screenshot" /\ l[i].v = FALSE

\* C12: for a file that fails the screenshot check the callback ends with
\* the check: no rescale, no upload, no clipboard write, no notification,
\* whether on_created or on_moved passed the file.
C12_NonScreenshotIgnored ==
    \A o \in Obs :
      NotAScreenshot(log[o])
      => /\ Len(log[o]) = 2
         /\ log[o][1].op \in {"on_created", "on_moved"}
         /\ Ops(log[o]) \cap {"resampleRetinaImage", "open", "upload",
                               "pbcopy", "Screenshot shared!", "raise"} = {}
         /\ pc[o] = "idle"
         /\ cur[o] = <<>>

\* Both callbacks have passed a file that failed the check, with the
\* rescale preference set.
C12_Witness ==
    /\ prefs.retinascale
    /\ \E o \in Obs :
         log[o] = << LogEntry("on_moved", Shot, None),
                     LogEntry("is_screenshot", Shot, FALSE) >>
    /\ \E o \in Obs :
         log[o] = << LogEntry("on_created", Shot, None),
                     LogEntry("is_screenshot", Shot, FALSE) >>

\* C13: at most one thread is inside a callback's upload at a time.
C13_OneUploadInFlight ==
    Cardinality({ o \in Obs : pc[o] = "upload" }) <= 1

\* C14: after startListening_ has failed to start the observer,
\* self.observer is None: it never refers to an observer that was not
\* started.
C14_FailedStartLeavesNone ==
    \A o \in Obs : st[o] = "unstarted" => observer # o

\* restart_ runs to the end of its startListening_: directly when there is
\* no observer to stop, after the join otherwise.
RestartReturns ==
    /\ \/ CallRestart /\ ~HasObserver(observer)
       \/ JoinReturns /\ mainop = "restart_"
    /\ Last(mainlog') = "UpShot started"

\* C15: when restart_ returns exactly one observer is running.
C15_RestartLeavesOne ==
    [][ RestartReturns
        => Cardinality({ o \in Obs : st'[o] = "running" }) = 1 ]_vars

\* saveSettings_ has stored the two checkboxes and they were not clicked
\* since.
SavedCheckboxes ==
    /\ win # NoWindow
    /\ win.copyonly = prefs.copyonly
    /\ win.retinascale = prefs.retinascale

\* C16: updateDisplay after saveSettings_ shows the copyonly checkbox with
\* the copyonly preference and the retinascale checkbox with the
\* retinascale preference.
C16_CheckboxRoundTrip ==
    [][ (SavedCheckboxes /\ showWindow_)
        => /\ win'.copyonly = prefs'.copyonly
           /\ win'.retinascale = prefs'.retinascale ]_vars

====
